---- MODULE Spec2Model ----
(***************************************************************************)
(* Model of synapse/handlers/appservice.py (ApplicationServicesHandler)    *)
(* and synapse/python_dependencies.py (check_requirements).                *)
(*                                                                         *)
(* Spec     : the handler; register is split at its two yields.            *)
(* FairSpec : Spec with weak fairness on every handler step.               *)
(* DepSpec  : check_requirements applied to every bounded environment.     *)
(***************************************************************************)
EXTENDS Integers, Sequences, FiniteSets, TLC

VARIABLES
    store,        \* the registry store: token -> stored service or NoService
    regPc,        \* position of the register() coroutine
    regArg,       \* app_service argument of the running register()
    regLookup,    \* what get_app_service_by_token did for the running register()
    regResult,    \* what register() gave its caller
    regUpdates,   \* update_app_service invocations made by the running register()
    unregCalled,  \* tokens for which a call unregister(token) has returned
    deleteCalls,  \* tokens handed to store.unregister_app_service
    notifyLog,    \* history: <<token, event>> for every notify call made while
                  \* get_services_for_event reported that service for the event
    pushed,       \* <<token, event>> pairs the push transport has acknowledged
    qEvent,       \* argument of the last get_services_for_event call
    qResult,      \* its return value (tokens of the services in interested_list)
    installed,    \* python environment: project -> "ok" | "conflict" | "missing"
    pypy,         \* platform_python_implementation == 'PyPy'
    depCall,      \* for_feature of the last check_requirements call
    depResult     \* its outcome

handlerVars == <<store, regPc, regArg, regLookup, regResult, regUpdates,
                 unregCalled, deleteCalls, notifyLog, pushed, qEvent, qResult>>
depVars == <<installed, pypy, depCall, depResult>>
vars == <<handlerVars, depVars>>

None == "None"
NotYet == "not_yet"
\* "No stored service" and "no event", shaped like the values they stand in for.
NoService == [token |-> None, namespaces |-> {}]
NoEvent == [room_id |-> <<>>, sender |-> <<>>]

----------------------------------------------------------------------------
(* Bounds and input domains *)

Tokens == {"as_token_1", "as_token_2"}

\* Identifiers and regexes are sequences of characters; "*" in a regex
\* stands for ".*".
RoomFoo == <<"f", "o">>
RoomBar == <<"b">>
UserBob == <<"b", "o">>
UserAl == <<"a", "l">>
AliasFoo == <<"a", "f">>

Events == { [room_id |-> RoomFoo, sender |-> UserAl],
            [room_id |-> RoomBar, sender |-> UserBob] }

NamespaceChoices ==
    { {},
      { [kind |-> "room",  regex |-> <<"f", "*">>] },
      { [kind |-> "user",  regex |-> <<"b", "o">>] },
      { [kind |-> "alias", regex |-> <<"a", "*">>] } }

AppServices == [token : Tokens, namespaces : NamespaceChoices]

\* The aliases the room directory associates with a room.
room_aliases(room_id) == IF room_id = RoomFoo THEN {AliasFoo} ELSE {}

----------------------------------------------------------------------------
(* Interest matching *)

RECURSIVE full_match(_, _)
full_match(regex, id) ==
    IF regex = <<>> THEN id = <<>>
    ELSE IF Head(regex) = "*"
         THEN \/ full_match(Tail(regex), id)
              \/ (id # <<>> /\ full_match(regex, Tail(id)))
         ELSE /\ id # <<>>
              /\ Head(id) = Head(regex)
              /\ full_match(Tail(regex), Tail(id))

is_interested(s, event, alias_list) ==
    \E ns \in s.namespaces :
        \/ ns.kind = "room" /\ full_match(ns.regex, event.room_id)
        \/ ns.kind = "user" /\ full_match(ns.regex, event.sender)
        \/ ns.kind = "alias" /\ \E a \in alias_list : full_match(ns.regex, a)

get_app_services(st) == { t \in Tokens : st[t] # NoService }

get_services_for_event(st, event) ==
    LET alias_list == {}
    IN  { t \in get_app_services(st) : is_interested(st[t], event, alias_list) }

----------------------------------------------------------------------------
(* The registry store, as the handler uses it *)

StoredServices(t) == { s \in AppServices : s.token = t }

\* What store.get_app_service_by_token(token) can do: hand back the stored
\* service, hand back nothing or raise StoreError(404) for an unknown token,
\* or raise another StoreError because the store cannot be reached.
get_app_service_by_token(st, token) ==
    {"StoreError500"} \cup
    (IF st[token] = NoService THEN {"None", "StoreError404"} ELSE {"stored_service"})

update_app_service(st, app_service) ==
    [st EXCEPT ![app_service.token] = app_service]

unregister_app_service(st, token) ==
    [st EXCEPT ![token] = NoService]

----------------------------------------------------------------------------
(* ApplicationServicesHandler.register *)

\* The try/except around the lookup: anything but a stored service ends in
\* SynapseError(403, errcode=FORBIDDEN).
register_check_lenient(lookup) ==
    IF lookup \in {"stored_service", "None"} THEN "update" ELSE "SynapseError403"

register_check(lookup) ==
    IF lookup = "stored_service" THEN "update" ELSE "SynapseError403"

register_call ==
    /\ regPc = "idle"
    /\ \E app_service \in AppServices :
          regArg' = app_service
    /\ regPc' = "lookup"
    /\ regLookup' = NotYet
    /\ regResult' = None
    /\ regUpdates' = 0
    /\ UNCHANGED <<store, unregCalled, deleteCalls, notifyLog, pushed, qEvent, qResult>>
    /\ UNCHANGED depVars

register_lookup ==
    /\ regPc = "lookup"
    /\ \E lookup \in get_app_service_by_token(store, regArg.token) :
          /\ regLookup' = lookup
          /\ IF register_check(lookup) = "update"
             THEN regPc' = "update" /\ regResult' = regResult
             ELSE regPc' = "done" /\ regResult' = "SynapseError403"
    /\ UNCHANGED <<store, regArg, regUpdates>>
    /\ UNCHANGED <<unregCalled, deleteCalls, notifyLog, pushed, qEvent, qResult>>
    /\ UNCHANGED depVars

register_update_skipped ==
    /\ regPc = "update"
    /\ regPc' = "done"
    /\ regResult' = "ok"
    /\ UNCHANGED <<store, regArg, regLookup, regUpdates>>
    /\ UNCHANGED <<unregCalled, deleteCalls, notifyLog, pushed, qEvent, qResult>>
    /\ UNCHANGED depVars

register_update ==
    /\ regPc = "update"
    /\ store' = update_app_service(store, regArg)
    /\ regUpdates' = regUpdates + 1
    /\ regPc' = "done"
    /\ regResult' = "ok"
    /\ UNCHANGED <<regArg, regLookup>>
    /\ UNCHANGED <<unregCalled, deleteCalls, notifyLog, pushed, qEvent, qResult>>
    /\ UNCHANGED depVars

\* The caller has taken register's result; the handler is ready for the next call.
register_return ==
    /\ regPc = "done"
    /\ regPc' = "idle"
    /\ regArg' = NoService
    /\ regLookup' = NotYet
    /\ regResult' = None
    /\ regUpdates' = 0
    /\ UNCHANGED <<store, unregCalled, deleteCalls, notifyLog, pushed, qEvent, qResult>>
    /\ UNCHANGED depVars

----------------------------------------------------------------------------
(* unregister, get_services_for_event, notify_interested_services *)

\* unregister contains a yield and carries no inlineCallbacks decorator:
\* the call returns a generator object and runs none of the body.
unregister(token) ==
    /\ unregCalled' = unregCalled \cup {token}
    /\ UNCHANGED <<store, deleteCalls>>
    /\ UNCHANGED <<regPc, regArg, regLookup, regResult, regUpdates>>
    /\ UNCHANGED <<notifyLog, pushed, qEvent, qResult>>
    /\ UNCHANGED depVars

services_for_event_call(event) ==
    /\ qEvent' = event
    /\ qResult' = get_services_for_event(store, event)
    /\ UNCHANGED <<store, regPc, regArg, regLookup, regResult, regUpdates>>
    /\ UNCHANGED <<unregCalled, deleteCalls, notifyLog, pushed>>
    /\ UNCHANGED depVars

\* The body of notify_interested_services is `pass`: nothing is queued and
\* the push transport is never called.  Only the history of calls advances.
notify_interested_services(event) ==
    /\ notifyLog' = notifyLog \cup
                      { <<t, event>> : t \in get_services_for_event(store, event) }
    /\ UNCHANGED <<store, pushed, deleteCalls, unregCalled, qEvent, qResult>>
    /\ UNCHANGED <<regPc, regArg, regLookup, regResult, regUpdates>>
    /\ UNCHANGED depVars

----------------------------------------------------------------------------
(* python_dependencies: the requirement tables *)

\* A requirement specifier: the project it names and its environment
\* marker ("none" when it has no marker).
Req(name, marker) == [name |-> name, marker |-> marker]

REQUIREMENTS == << Req("jsonschema", "none"), Req("frozendict", "none") >>

Features == <<"postgres", "saml2", "redis">>

CONDITIONAL_REQUIREMENTS ==
    [ postgres |-> << Req("psycopg2", "not_pypy"),
                      Req("psycopg2cffi", "pypy"),
                      Req("psycopg2cffi-compat", "pypy") >>,
      saml2    |-> << Req("pysaml2", "none") >>,
      redis    |-> << Req("txredisapi", "none"), Req("hiredis", "none") >> ]

Projects == {"jsonschema", "frozendict", "psycopg2", "psycopg2cffi",
             "psycopg2cffi-compat", "pysaml2", "txredisapi", "hiredis"}

\* What the working set holds for a project: a version the specifier
\* accepts, a version it rejects, or nothing.
Installs == {"ok", "conflict", "missing"}

\* sum(CONDITIONAL_REQUIREMENTS.values(), [])
RECURSIVE sum_values(_)
sum_values(i) ==
    IF i > Len(Features) THEN <<>>
    ELSE CONDITIONAL_REQUIREMENTS[Features[i]] \o sum_values(i + 1)

OPTS == sum_values(1)

NoResult == [raised |-> FALSE, deps_needed |-> <<>>, errors |-> <<>>]

----------------------------------------------------------------------------
(* python_dependencies: _check_requirement and check_requirements *)

marker_evaluate(marker, is_pypy) ==
    IF marker = "pypy" THEN is_pypy ELSE ~is_pypy

\* pkg_resources.get_provider(req) on the working set env.
get_provider(req, env) ==
    CASE env[req.name] = "ok"       -> "ok"
      [] env[req.name] = "conflict" -> "VersionConflict"
      [] env[req.name] = "missing"  -> "DistributionNotFound"

_check_requirement_ignoring_marker(dependency, env, is_pypy) ==
    get_provider(dependency, env)

_check_requirement(dependency, env, is_pypy) ==
    IF dependency.marker # "none" /\ ~marker_evaluate(dependency.marker, is_pypy)
    THEN "ok"
    ELSE get_provider(dependency, env)

\* The first loop of check_requirements, from position i of reqs, with the
\* lists built so far.
RECURSIVE check_reqs(_, _, _, _, _, _)
check_reqs(reqs, i, for_feature, env, is_pypy, acc) ==
    IF i > Len(reqs) THEN acc
    ELSE LET dependency == reqs[i]
             r == _check_requirement(dependency, env, is_pypy)
             next ==
                 CASE r = "VersionConflict" ->
                        [acc EXCEPT !.deps_needed = Append(@, dependency),
                                    !.errors = Append(@, <<"Needed, got", dependency.name>>)]
                   [] r = "DistributionNotFound" ->
                        [acc EXCEPT !.deps_needed = Append(@, dependency),
                                    !.errors = Append(@,
                                        IF for_feature # None
                                        THEN <<"Needed for the feature but not installed", dependency.name>>
                                        ELSE <<"Needed but not installed", dependency.name>>)]
                   [] OTHER -> acc
         IN  check_reqs(reqs, i + 1, for_feature, env, is_pypy, next)

\* The second loop: the optional dependencies, which may be absent.
RECURSIVE check_opts(_, _, _, _, _)
check_opts(opts, i, env, is_pypy, acc) ==
    IF i > Len(opts) THEN acc
    ELSE LET dependency == opts[i]
             r == _check_requirement(dependency, env, is_pypy)
             next ==
                 IF r = "VersionConflict"
                 THEN [acc EXCEPT !.deps_needed = Append(@, dependency),
                                  !.errors = Append(@, <<"Needed optional, got", dependency.name>>)]
                 ELSE acc
         IN  check_opts(opts, i + 1, env, is_pypy, next)

check_requirements(for_feature, env, is_pypy) ==
    LET reqs == IF for_feature # None
                THEN CONDITIONAL_REQUIREMENTS[for_feature]
                ELSE REQUIREMENTS
        first == check_reqs(reqs, 1, for_feature, env, is_pypy, NoResult)
        both == IF for_feature = None
                THEN check_opts(OPTS, 1, env, is_pypy, first)
                ELSE first
    IN  [both EXCEPT !.raised = (both.deps_needed # <<>>)]

check_all ==
    /\ depCall' = None
    /\ depResult' = check_requirements(None, installed, pypy)
    /\ UNCHANGED <<installed, pypy>>
    /\ UNCHANGED handlerVars

check_feature ==
    /\ \E i \in 1..Len(Features) :
          /\ depCall' = Features[i]
          /\ depResult' = check_requirements(Features[i], installed, pypy)
    /\ UNCHANGED <<installed, pypy>>
    /\ UNCHANGED handlerVars

----------------------------------------------------------------------------
(* The specifications *)

HandlerIdle ==
    /\ regPc = "idle"
    /\ regArg = NoService
    /\ regLookup = NotYet
    /\ regResult = None
    /\ regUpdates = 0
    /\ unregCalled = {}
    /\ deleteCalls = {}
    /\ notifyLog = {}
    /\ pushed = {}
    /\ qEvent = NoEvent
    /\ qResult = {}

DepIdle ==
    /\ installed = [p \in Projects |-> "ok"]
    /\ pypy = FALSE
    /\ depCall = "not_called"
    /\ depResult = NoResult

Init ==
    /\ store \in [Tokens -> {NoService} \cup AppServices]
    /\ \A t \in Tokens : store[t] \in {NoService} \cup StoredServices(t)
    /\ HandlerIdle
    /\ DepIdle

Next ==
    \/ register_call
    \/ register_lookup
    \/ register_update
    \/ register_return
    \/ \E token \in Tokens : unregister(token)
    \/ \E event \in Events : services_for_event_call(event)
    \/ \E event \in Events : notify_interested_services(event)

Spec == Init /\ [][Next]_vars

\* The reactor runs every coroutine step that is ready.
FairSpec ==
    /\ Spec
    /\ WF_vars(register_lookup)
    /\ WF_vars(register_update)
    /\ WF_vars(register_return)

DepInit ==
    /\ installed \in [Projects -> Installs]
    /\ pypy \in BOOLEAN
    /\ depCall = "not_called"
    /\ depResult = NoResult
    /\ store = [t \in Tokens |-> NoService]
    /\ HandlerIdle

DepNext ==
    \/ check_all
    \/ check_feature

DepSpec == DepInit /\ [][DepNext]_vars

----------------------------------------------------------------------------
(* Properties *)

Unrecognised == {"None", "StoreError404"}

\* C1: every event passed to notify is eventually pushed, in a transaction
\* the transport acknowledges, to every service the matcher reported as
\* interested in it.
C1_AtLeastOnceDelivery ==
    \A t \in Tokens : \A e \in Events :
        (<<t, e>> \in notifyLog) ~> (<<t, e>> \in pushed)

\* C2: register with a token the store does not recognise ends in
\* SynapseError(403, FORBIDDEN); update_app_service is never invoked for
\* that call and the stored records stay as they were.
C2_UnrecognisedTokenForbidden ==
    /\ [](regLookup \in Unrecognised =>
            /\ regPc = "done"
            /\ regResult = "SynapseError403"
            /\ regUpdates = 0)
    /\ [][regLookup' \in Unrecognised => store' = store]_vars

C2_Witness ==
    /\ regPc = "done"
    /\ regLookup = "None"
    /\ regResult = "SynapseError403"
    /\ store[regArg.token] = NoService

\* C3: once unregister(token) has returned, the store's delete for that
\* token has been performed and no service with that token is listed.
C3_UnregisterRemoves ==
    \A t \in unregCalled :
        /\ t \in deleteCalls
        /\ t \notin get_app_services(store)

\* C4: get_services_for_event returns exactly the services with a namespace
\* matching the event's room id, its sender, or an alias of its room.
ExpectedServices(st, event) ==
    { t \in get_app_services(st) :
        is_interested(st[t], event, room_aliases(event.room_id)) }

C4_InterestedIffSomeNamespaceMatches ==
    [][<<qEvent, qResult>>' # <<qEvent, qResult>>
         => qResult' = ExpectedServices(store', qEvent')]_vars

\* C8: register reports permission-denied only for an unrecognised token;
\* a lookup that fails because the store is unavailable is not reported
\* as 403.
C8_ForbiddenOnlyForUnrecognisedToken ==
    regResult = "SynapseError403" => regLookup \in Unrecognised

\* C9: register with a token the store recognises completes without error
\* and has invoked update_app_service exactly once, with the submitted
\* record, and only after the lookup returned a stored service.
C9_RecognisedTokenPersisted ==
    /\ (regPc = "done" /\ regLookup = "stored_service") =>
            /\ regResult = "ok"
            /\ regUpdates = 1
            /\ store[regArg.token] = regArg
    /\ regUpdates <= 1
    /\ regUpdates = 1 => regLookup = "stored_service"
    /\ regPc = "update" => (regLookup = "stored_service" /\ regUpdates = 0)

C9_Witness ==
    /\ regPc = "done"
    /\ regResult = "ok"
    /\ regUpdates = 1
    /\ regArg.namespaces # {}

----------------------------------------------------------------------------
(* Properties of check_requirements *)

Range(seq) == { seq[i] : i \in 1..Len(seq) }

Bad(dep) == installed[dep.name] \in {"conflict", "missing"}
Conflicting(dep) == installed[dep.name] = "conflict"

\* The requirement's marker, if it has one, holds on this interpreter.
Applies(dep) == dep.marker = "none" \/ marker_evaluate(dep.marker, pypy)

Called == depCall # "not_called"

\* C10 as stated: without a feature the call raises iff a required
\* dependency is missing or conflicting or an optional one is installed with
\* a conflicting version, and lists exactly those; with a feature it reports
\* each missing or conflicting dependency of that feature.
C10_AsStated ==
    /\ (Called /\ depCall = None) =>
          LET failed == { d \in Range(REQUIREMENTS) : Bad(d) } \cup
                        { d \in Range(OPTS) : Conflicting(d) }
          IN  /\ depResult.raised <=> (failed # {})
              /\ Range(depResult.deps_needed) = failed
    /\ (Called /\ depCall # None) =>
          LET failed == { d \in Range(CONDITIONAL_REQUIREMENTS[depCall]) : Bad(d) }
          IN  /\ depResult.raised <=> (failed # {})
              /\ Range(depResult.deps_needed) = failed

\* C10 amended: the same, over the dependencies whose environment marker
\* holds on the running interpreter; a dependency whose marker does not hold
\* is skipped.
C10_CheckRequirements ==
    /\ (Called /\ depCall = None) =>
          LET failed == { d \in Range(REQUIREMENTS) : Applies(d) /\ Bad(d) } \cup
                        { d \in Range(OPTS) : Applies(d) /\ Conflicting(d) }
          IN  /\ depResult.raised <=> (failed # {})
              /\ Range(depResult.deps_needed) = failed
    /\ (Called /\ depCall # None) =>
          LET failed == { d \in Range(CONDITIONAL_REQUIREMENTS[depCall]) :
                            Applies(d) /\ Bad(d) }
          IN  /\ depResult.raised <=> (failed # {})
              /\ Range(depResult.deps_needed) = failed

\* A call without a feature that raises although an optional dependency is
\* absent, and that skips a conflicting dependency whose marker does not hold.
C10_Witness ==
    /\ depCall = None
    /\ depResult.raised
    /\ installed["hiredis"] = "missing"
    /\ installed["psycopg2cffi"] = "conflict"
    /\ ~pypy
    /\ Req("hiredis", "none") \notin Range(depResult.deps_needed)
    /\ Req("psycopg2cffi", "pypy") \notin Range(depResult.deps_needed)

====
